---- MODULE Spec2Model ----
(***************************************************************************)
(* briefpg: the lifecycle controller of a temporary PostgreSQL instance.   *)
(*                                                                         *)
(* One BriefPG instance, driven sequentially by a caller.  Every exported  *)
(* method is one action; the result of every external step (a subprocess,  *)
(* ioutil.TempDir, os.RemoveAll, opening the configuration file) is an     *)
(* input of the action, drawn from the outcomes the step can have.         *)
(*                                                                         *)
(* Strings that the code builds from parts are sequences of their parts:   *)
(* a path is the sequence of the pieces filepath.Join received, a command  *)
(* line is the sequence of its arguments, a URI the sequence of the pieces *)
(* of its format string.                                                   *)
(***************************************************************************)
EXTENDS Integers, Sequences, FiniteSets, TLC

VARIABLES
    live,       \* TRUE once New has returned an instance
    bp,         \* the fields of the BriefPG struct
    host,       \* the machine: search path, glob matches, installed files
    dirs,       \* the working directories that exist
    dbdirs,     \* the data directories (paths) that exist
    tempSeq,    \* how many names ioutil.TempDir has handed out
    op,         \* the last call: its name and arguments
    err,        \* the error the last call returned
    ret,        \* the string the last call returned (CreateDB)
    trace,      \* what the last call did, in order
    panicked,   \* the last call panicked (MustFini)
    pre,        \* what the last call found when it began
    hist,       \* what has happened so far: a Start / a Fini has succeeded,
                \* and the data directory the last successful Start started in
    peer,       \* the fields of a second BriefPG struct, when there are two
    pc          \* where each goroutine is, when several call into one instance

vars == <<live, bp, host, dirs, dbdirs, tempSeq, op, err, ret, trace,
          panicked, pre, hist, peer, pc>>

----------------------------------------------------------------------------
(* bounds *)

\* the longest option list New is called with
MaxOpts == 2

\* how many names ioutil.TempDir can hand out
MaxTemp == 2

----------------------------------------------------------------------------
(* bpState *)

stateNotPresent == 0
statePresent == 1
stateUninitialized == 2
stateInitialized == 3
stateServerStarted == 4
stateDefunct == 5

DefaultPgConfTemplate == "DefaultPgConfTemplate"

NullLogFunction == "NullLogFunction"

utilities == <<"psql", "initdb", "pg_ctl", "pg_dump">>

tryGlobs == <<"/usr/lib/postgresql/*/bin", "/usr/pgsql-*/bin",
              "/usr/local/pgsql/bin", "/usr/local/pgsql-*/bin",
              "/usr/local/bin">>

----------------------------------------------------------------------------
(* errors, commands, events *)

\* an error value: its own message, the command line it carries, and the
\* message of the error it wraps ("" when it wraps none)
Error(msg, args, cause) == [msg |-> msg, args |-> args, cause |-> cause]

nil == Error("", <<>>, "")

\* the outcomes of running a subprocess
Outcomes == {"ok", "exit", "launch"}

\* exec.Command(path, args...)
Command(path, args) == [Path |-> path, Args |-> <<path>> \o args]

NoCmd == [Path |-> <<>>, Args |-> <<>>]

\* the outcome of running cmd, r being the outcome the machine gives it: a
\* command with an empty path (a name the nil map does not hold) never starts
Run(cmd, r) == IF cmd.Path = <<>> THEN "launch" ELSE r

Ev(k, cmd, res) == [k |-> k, cmd |-> cmd, res |-> res, opt |-> [k |-> "", v |-> ""]]

RECURSIVE SelectEv(_, _)
SelectEv(tr, k) ==
    IF tr = <<>> THEN <<>>
    ELSE (IF Head(tr).k = k THEN <<Head(tr)>> ELSE <<>>) \o SelectEv(Tail(tr), k)

\* the subprocesses a call ran
Execs(tr) == SelectEv(tr, "exec")

\* the name of the program a command runs
Prog(cmd) == IF cmd.Path = <<>> THEN "" ELSE cmd.Path[Len(cmd.Path)]

\* fmt.Errorf("%s; command: %s; stderr: %s: %w", ...) for an exit error,
\* fmt.Errorf("%s", msg) for any other
wrapExecErr(msg, cmd, r) ==
    IF r = "exit" THEN Error(msg, cmd.Args, "exit status")
    ELSE Error(msg, <<>>, "")

----------------------------------------------------------------------------
(* strings *)

IsSpace(c) == c \in {" ", "\t", "\n", "\r"}

RECURSIVE TrimLeft(_)
TrimLeft(s) ==
    IF s # <<>> /\ IsSpace(Head(s)) THEN TrimLeft(Tail(s)) ELSE s

RECURSIVE TrimRight(_)
TrimRight(s) ==
    IF s # <<>> /\ IsSpace(s[Len(s)]) THEN TrimRight(SubSeq(s, 1, Len(s) - 1))
    ELSE s

\* strings.TrimSpace
TrimSpace(s) == TrimRight(TrimLeft(s))

\* the last element of strings.Split(s, " "): what follows the last " "
RECURSIVE LastField(_)
LastField(s) ==
    IF s = <<>> \/ s[Len(s)] = " " THEN <<>>
    ELSE LastField(SubSeq(s, 1, Len(s) - 1)) \o <<s[Len(s)]>>

\* filepath.Join(dir, rest...): empty elements are dropped
Join(dir, rest) == (IF dir = "" THEN <<>> ELSE <<dir>>) \o rest

----------------------------------------------------------------------------
(* the machine the program runs on *)

Range(s) == {s[i] : i \in 1..Len(s)}

AllUtilities == Range(utilities)

VersionA == <<"pg_ctl", " ", "(PostgreSQL)", " ", "12.4", "\n">>

VersionB == <<"pg_ctl", " ", "(PostgreSQL)", " ", "9.6", "\n">>

\* what a pg_ctl that prints no version puts out
VersionBlank == <<"\n">>

\* PostgreSQL is on $PATH, behind a directory that holds the client alone
HostWithPg ==
    [PATH    |-> <<"/usr/bin", "/pgA/bin">>,
     glob    |-> [g \in Range(tryGlobs) |->
                    IF g = "/usr/local/bin" THEN <<"/usr/local/bin">> ELSE <<>>],
     files   |-> [d \in {"/usr/bin", "/pgA/bin", "/pgB/bin", "/usr/local/bin"} |->
                    IF d = "/usr/bin" THEN {"psql", "pg_dump"} ELSE AllUtilities],
     version |-> [d \in {"/pgA/bin", "/pgB/bin", "/usr/local/bin"} |->
                    IF d = "/pgA/bin" THEN VersionA ELSE VersionB]]

\* PostgreSQL is neither on $PATH nor in a well-known place; the pg_ctl of the
\* one directory that holds the utilities prints no version
HostWithoutPg ==
    [PATH    |-> <<"/usr/bin">>,
     glob    |-> [g \in Range(tryGlobs) |-> <<>>],
     files   |-> [d \in {"/usr/bin", "/pgB/bin"} |->
                    IF d = "/usr/bin" THEN {"psql", "pg_dump"} ELSE AllUtilities],
     version |-> [d \in {"/pgB/bin"} |-> VersionBlank]]

Hosts == {HostWithPg, HostWithoutPg}

\* os.Stat(filepath.Join(dir, name)) succeeds
StatFile(h, dir, name) == dir \in DOMAIN h.files /\ name \in h.files[dir]

----------------------------------------------------------------------------
(* findPostgres *)

NilCmds == [u \in {} |-> <<>>]

\* pgCmds[name], "" for a name the map does not hold
Lookup(cmds, name) == IF name \in DOMAIN cmds THEN cmds[name] ELSE <<>>

RECURSIVE globAll(_, _)
globAll(h, gs) ==
    IF gs = <<>> THEN <<>> ELSE h.glob[Head(gs)] \o globAll(h, Tail(gs))

\* the candidates, were the hint to be tried before the usual places
allPathsOf_HintFirst(path, h) ==
    (IF path # "" THEN <<path>> ELSE <<>>) \o h.PATH \o globAll(h, tryGlobs)

allPathsOf(path, h) ==
    IF path # "" THEN <<path>> ELSE h.PATH \o globAll(h, tryGlobs)

\* every utility is in directory dir
hasAll(h, dir) == \A i \in 1..Len(utilities) : StatFile(h, dir, utilities[i])

\* the loop over allPaths, were it to go on after a directory that has them all
RECURSIVE pathLoop_NoBreak(_, _)
pathLoop_NoBreak(h, paths) ==
    IF paths = <<>> THEN NilCmds
    ELSE IF DOMAIN pathLoop_NoBreak(h, Tail(paths)) # {}
         THEN pathLoop_NoBreak(h, Tail(paths))
         ELSE IF hasAll(h, Head(paths))
              THEN [u \in AllUtilities |-> Join(Head(paths), <<u>>)]
              ELSE NilCmds

\* the directories the loop over allPaths looks into, in order
RECURSIVE pathsTried(_, _)
pathsTried(h, paths) ==
    IF paths = <<>> THEN <<>>
    ELSE IF hasAll(h, Head(paths)) THEN <<Head(paths)>>
         ELSE <<Head(paths)>> \o pathsTried(h, Tail(paths))

RECURSIVE pathLoop(_, _)
pathLoop(h, paths) ==
    IF paths = <<>> THEN NilCmds
    ELSE IF \A i \in 1..Len(utilities) : StatFile(h, Head(paths), utilities[i])
         THEN [u \in AllUtilities |-> Join(Head(paths), <<u>>)]
         ELSE pathLoop(h, Tail(paths))

\* the end of findPostgres: pgCmds is what the loop over allPaths found
found(pgCmds, allPaths) ==
    IF DOMAIN pgCmds = {}
    THEN [cmds |-> NilCmds,
          err  |-> Error("couldn't find Postgres; tried",
                         [i \in 1..Len(allPaths) |-> <<allPaths[i]>>], "")]
    ELSE [cmds |-> pgCmds, err |-> nil]

searchPaths(allPaths, h) == found(pathLoop(h, allPaths), allPaths)

findPostgres(path, h) == searchPaths(allPathsOf(path, h), h)

PostgresInstalled(path, h) == findPostgres(path, h).err

----------------------------------------------------------------------------
(* options *)

Option(k, v) == [k |-> k, v |-> v]

ApplyEv(o, res) == [k |-> "apply", cmd |-> NoCmd, res |-> res, opt |-> o]

Result(b, e, tr) == [bp |-> b, err |-> e, tr |-> tr]

\* the end of setPostgresPath: pg_ctl -V, run as cmd, ended as vr
harvestVersion(b1, cmd, h, vr) ==
    IF vr # "ok"
    THEN Result(b1, Error("Failed running pg_ctl -V", <<>>, vr), <<Ev("exec", cmd, vr)>>)
    ELSE Result([b1 EXCEPT !.pgVer = LastField(TrimSpace(h.version[cmd.Path[1]]))],
                nil, <<Ev("exec", cmd, vr)>>)

\* setPostgresPath once findPostgres has returned f: bp.pgCmds is assigned
\* whether or not it failed
setFound(b, f, h, vr) ==
    IF f.err # nil THEN Result([b EXCEPT !.pgCmds = f.cmds], f.err, <<>>)
    ELSE harvestVersion([b EXCEPT !.pgCmds = f.cmds],
                        Command(Lookup(f.cmds, "pg_ctl"), << <<"-V">> >>), h, vr)

\* setPostgresPath, were it to look for an engine whatever the state
setPostgresPath_NoStateCheck(b, pgPath, h, vr) ==
    setFound(b, findPostgres(pgPath, h), h, vr)

\* vr: the outcome of running pg_ctl -V
setPostgresPath(b, pgPath, h, vr) ==
    IF b.state >= stateInitialized
    THEN Result(b, Error("postgres path cannot be set after db has been initialized",
                         <<>>, ""), <<>>)
    ELSE setFound(b, findPostgres(pgPath, h), h, vr)

\* setTmpDir, were it to take a directory from a freshly built instance alone
setTmpDir_FreshOnly(b, tmpDir) ==
    IF b.madeTmpDir \/ b.state # stateUninitialized
    THEN Result(b, Error("tmpdir cannot be set after tmpdir has been created",
                         <<>>, ""), <<>>)
    ELSE Result([b EXCEPT !.tmpDir = tmpDir], nil, <<>>)

setTmpDir(b, tmpDir) ==
    IF b.madeTmpDir
    THEN Result(b, Error("tmpdir cannot be set after tmpdir has been created",
                         <<>>, ""), <<>>)
    ELSE Result([b EXCEPT !.tmpDir = tmpDir], nil, <<>>)

setPostgresEncoding(b, enc) == Result([b EXCEPT !.encoding = enc], nil, <<>>)

OptLogFunc(b, logf) == Result([b EXCEPT !.logf = logf], nil, <<>>)

\* optionFunc.apply
apply(o, b, h, vr) ==
    CASE o.k = "OptPostgresPath"     -> setPostgresPath(b, o.v, h, vr)
      [] o.k = "OptLogFunc"          -> OptLogFunc(b, o.v)
      [] o.k = "OptTmpDir"           -> setTmpDir(b, o.v)
      [] o.k = "OptPostgresEncoding" -> setPostgresEncoding(b, o.v)

\* the options a caller passes
Options ==
    {Option("OptPostgresPath", d) : d \in {"", "/pgB/bin", "/bogus/path"}}
    \cup {Option("OptTmpDir", d) : d \in {"", "/u1", "/some/bogus/path"}}
    \cup {Option("OptPostgresEncoding", "GARBAGE"), Option("OptLogFunc", "t.Logf")}

----------------------------------------------------------------------------
(* New *)

NewBriefPG ==
    [tmpDir         |-> "",
     madeTmpDir     |-> FALSE,
     encoding       |-> "UNICODE",
     pgConfTemplate |-> DefaultPgConfTemplate,
     logf           |-> NullLogFunction,
     state          |-> stateUninitialized,
     pgCmds         |-> NilCmds,
     pgVer          |-> <<>>]

\* one turn of the loop over the options: option o, applied with result r,
\* after the options before it gave acc
applied(acc, o, r) ==
    IF r.err # nil
    THEN Result(r.bp, Error("Failed applying option", r.err.args, r.err.msg),
                acc.tr \o <<ApplyEv(o, "err")>> \o r.tr)
    ELSE Result(r.bp, nil, acc.tr \o <<ApplyEv(o, "ok")>> \o r.tr)

\* the loop over the options, were it to go on after an option that failed
RECURSIVE applyAll_KeepGoing(_, _, _, _, _)
applyAll_KeepGoing(acc, options, i, h, vrs) ==
    IF i > Len(options) THEN acc
    ELSE applyAll_KeepGoing(
             applied(acc, options[i], apply(options[i], acc.bp, h, vrs[i])),
             options, i + 1, h, vrs)

\* for _, o := range options: stops at the first option that fails
RECURSIVE applyAll(_, _, _, _, _)
applyAll(acc, options, i, h, vrs) ==
    IF i > Len(options) \/ acc.err # nil THEN acc
    ELSE applyAll(applied(acc, options[i], apply(options[i], acc.bp, h, vrs[i])),
                  options, i + 1, h, vrs)

NewResult(ok, b, e, tr) == [ok |-> ok, bp |-> b, err |-> e, tr |-> tr]

\* the default lookup returned s, after the options gave a
lookedUp(a, s) ==
    IF s.err # nil
    THEN NewResult(FALSE, s.bp, Error("Unable to find Postgres", <<>>, ""), a.tr \o s.tr)
    ELSE NewResult(TRUE, s.bp, nil, a.tr \o s.tr)

\* New after the loop over the options, which gave a
constructed(a, h, vd) ==
    IF a.err # nil THEN NewResult(FALSE, a.bp, a.err, a.tr)
    ELSE IF DOMAIN a.bp.pgCmds = {}
    THEN lookedUp(a, setPostgresPath(a.bp, "", h, vd))
    ELSE NewResult(TRUE, a.bp, nil, a.tr)

\* vrs[i]: the outcome of pg_ctl -V in option i; vd: in the default lookup.
\* bp is the instance returned; ok is FALSE when New returns nil.
NewOf(options, h, vrs, vd) ==
    constructed(applyAll(Result(NewBriefPG, nil, <<>>), options, 1, h, vrs), h, vd)

----------------------------------------------------------------------------
(* the instance and the file system it works in *)

World(b, ds, dbs, n) == [bp |-> b, dirs |-> ds, dbdirs |-> dbs, tempSeq |-> n]

Res(w, e, tr, rt) == [w |-> w, err |-> e, tr |-> tr, ret |-> rt]

RmEv(dir, res) == [k |-> "rm", cmd |-> NoCmd, res |-> res, opt |-> Option("dir", dir)]

\* bp.logf(...): what is logged (a command line, a command's output, a note)
Logf(cmd, what) == Ev("log", cmd, what)

\* the name ioutil.TempDir("", "briefpg.<user>.") makes on its n-th success
TempName(n) == "/tmp/briefpg.user." \o ToString(n)

PgVer(b) == b.pgVer

DbDir(b) == Join(b.tmpDir, b.pgVer)

\* os.Stat(bp.tmpDir) succeeds
StatTmpDir(w) == w.bp.tmpDir \in w.dirs

\* os.Stat(bp.DbDir()) succeeds: the data directory exists, or the path is the
\* working directory itself (an empty version)
StatDbDir(w) ==
    \/ DbDir(w.bp) \in w.dbdirs
    \/ DbDir(w.bp) = <<w.bp.tmpDir>> /\ StatTmpDir(w)

\* os.RemoveAll(dir)
RemoveAll(w, dir) ==
    [w EXCEPT !.dirs = @ \ {dir},
              !.dbdirs = {p \in @ : ~(Len(p) >= 1 /\ p[1] = dir)}]

DBUri(b, dbName) ==
    <<"postgresql:///", dbName, "?host=", b.tmpDir, "&user=postgres">>

\* mkTemp, were the name it makes to be the same every time
mkTemp_SameName(w, ok) ==
    IF ok
    THEN Res([w EXCEPT !.bp.tmpDir = TempName(1), !.bp.madeTmpDir = TRUE,
                       !.dirs = @ \cup {TempName(1)}],
             nil, <<Ev("mktemp", NoCmd, "ok")>>, <<>>)
    ELSE Res([w EXCEPT !.bp.tmpDir = ""],
             Error("Failed to make tmpdir", <<>>, "TempDir"),
             <<Ev("mktemp", NoCmd, "err")>>, <<>>)

\* ok: ioutil.TempDir succeeds
mkTemp(w, ok) ==
    IF ok /\ w.tempSeq < MaxTemp
    THEN LET name == TempName(w.tempSeq + 1)
         IN  Res([w EXCEPT !.bp.tmpDir = name, !.bp.madeTmpDir = TRUE,
                           !.dirs = @ \cup {name}, !.tempSeq = @ + 1],
                 nil, <<Ev("mktemp", NoCmd, "ok")>>, <<>>)
    ELSE Res([w EXCEPT !.bp.tmpDir = ""],
             Error("Failed to make tmpdir", <<>>, "TempDir"),
             <<Ev("mktemp", NoCmd, "err")>>, <<>>)

----------------------------------------------------------------------------
(* initDB, Start *)

\* the second half of initDB, were it to run initdb whether or not the data
\* directory is there
initData_AlwaysInitdb(w, x) ==
    LET b    == w.bp
        cmd  == Command(Lookup(b.pgCmds, "initdb"),
                        << <<"--nosync">>, <<"-U">>, <<"postgres">>, <<"-D">>,
                           DbDir(b), <<"-E">>, <<b.encoding>>, <<"-A">>, <<"trust">> >>)
        r    == Run(cmd, x.initdb)
        tr1  == <<Logf(cmd, "cmdline"), Ev("exec", cmd, r)>>
        w1   == IF r = "ok" THEN [w EXCEPT !.dbdirs = @ \cup {DbDir(b)}] ELSE w
        tr2  == tr1 \o <<Logf(NoCmd, "generating")>>
    IN  IF r # "ok"
        THEN Res(w, wrapExecErr("initDB failed", cmd, r),
                 tr1 \o <<Logf(cmd, "output")>>, <<>>)
        ELSE IF b.pgConfTemplate # DefaultPgConfTemplate
        THEN Res(w1, Error("initDB failed to parse postgresql.conf template", <<>>, "parse"),
                 tr2, <<>>)
        ELSE IF x.conf = "open"
        THEN Res(w1, Error("initDB failed to open config", <<>>, "open"), tr2, <<>>)
        ELSE IF x.conf = "execute"
        THEN Res(w1, Error("initDB failed to execute template", <<>>, "write"),
                 tr2 \o <<Ev("conf", NoCmd, "err")>>, <<>>)
        ELSE Res([w1 EXCEPT !.bp.state = stateInitialized], nil,
                 tr2 \o <<Ev("conf", NoCmd, "ok")>>, <<>>)

\* the second half of initDB: the data directory and its configuration file
initData(w, x) ==
    LET b    == w.bp
        cmd  == Command(Lookup(b.pgCmds, "initdb"),
                        << <<"--nosync">>, <<"-U">>, <<"postgres">>, <<"-D">>,
                           DbDir(b), <<"-E">>, <<b.encoding>>, <<"-A">>, <<"trust">> >>)
        r    == Run(cmd, x.initdb)
        need == ~StatDbDir(w)
        tr1  == IF need THEN <<Logf(cmd, "cmdline"), Ev("exec", cmd, r)>> ELSE <<>>
        w1   == IF need /\ r = "ok" THEN [w EXCEPT !.dbdirs = @ \cup {DbDir(b)}] ELSE w
        tr2  == tr1 \o <<Logf(NoCmd, "generating")>>
    IN  IF need /\ r # "ok"
        THEN Res(w, wrapExecErr("initDB failed", cmd, r),
                 tr1 \o <<Logf(cmd, "output")>>, <<>>)
        ELSE IF b.pgConfTemplate # DefaultPgConfTemplate
        THEN Res(w1, Error("initDB failed to parse postgresql.conf template", <<>>, "parse"),
                 tr2, <<>>)
        ELSE IF x.conf = "open"
        THEN Res(w1, Error("initDB failed to open config", <<>>, "open"), tr2, <<>>)
        ELSE IF x.conf = "execute"
        THEN Res(w1, Error("initDB failed to execute template", <<>>, "write"),
                 tr2 \o <<Ev("conf", NoCmd, "err")>>, <<>>)
        ELSE Res([w1 EXCEPT !.bp.state = stateInitialized], nil,
                 tr2 \o <<Ev("conf", NoCmd, "ok")>>, <<>>)

\* initDB, were it to take the caller's directory without looking for it
initDB_NoStat(w, x) ==
    IF w.bp.tmpDir = ""
    THEN LET m == mkTemp(w, x.mktemp)
         IN  IF m.err # nil THEN m
             ELSE LET d == initData([m.w EXCEPT !.bp.state = statePresent], x)
                  IN  Res(d.w, d.err, m.tr \o d.tr, <<>>)
    ELSE initData(w, x)

initDB(w, x) ==
    IF w.bp.tmpDir = ""
    THEN LET m == mkTemp(w, x.mktemp)
         IN  IF m.err # nil THEN m
             ELSE LET d == initData([m.w EXCEPT !.bp.state = statePresent], x)
                  IN  Res(d.w, d.err, m.tr \o d.tr, <<>>)
    ELSE IF ~StatTmpDir(w)
    THEN Res([w EXCEPT !.bp.state = stateNotPresent],
             Error("Tmpdir not present or not readable", <<>>, "stat"), <<>>, <<>>)
    ELSE initData(w, x)

\* the start, were a start command that fails to send the instance back to be
\* initialized again
startServer_BackOnFailure(w, x, tr) ==
    LET b   == w.bp
        cmd == Command(Lookup(b.pgCmds, "pg_ctl"),
                       << <<"-w">>, <<"-o">>, <<"-c listen_addresses='' ">>, <<"-s">>,
                          <<"-D">>, DbDir(b), <<"-l">>, DbDir(b) \o <<"postgres.log">>,
                          <<"start">> >>)
        r   == Run(cmd, x.start)
        tr1 == tr \o <<Logf(cmd, "cmdline"), Ev("exec", cmd, r)>>
    IN  IF r # "ok"
        THEN Res([w EXCEPT !.bp.state = stateUninitialized],
                 wrapExecErr("Start failed", cmd, r),
                 tr1 \o <<Logf(cmd, "output")>>, <<>>)
        ELSE Res([w EXCEPT !.bp.state = stateServerStarted], nil, tr1, <<>>)

\* what Start does once the instance is initialized
startServer(w, x, tr) ==
    LET b   == w.bp
        cmd == Command(Lookup(b.pgCmds, "pg_ctl"),
                       << <<"-w">>, <<"-o">>, <<"-c listen_addresses='' ">>, <<"-s">>,
                          <<"-D">>, DbDir(b), <<"-l">>, DbDir(b) \o <<"postgres.log">>,
                          <<"start">> >>)
        r   == Run(cmd, x.start)
        tr1 == tr \o <<Logf(cmd, "cmdline"), Ev("exec", cmd, r)>>
    IN  IF r # "ok"
        THEN Res(w, wrapExecErr("Start failed", cmd, r),
                 tr1 \o <<Logf(cmd, "output")>>, <<>>)
        ELSE Res([w EXCEPT !.bp.state = stateServerStarted], nil, tr1, <<>>)

\* Start, were it to go on to the start command whatever initDB returned
StartOf_StartAnyway(w, x) ==
    IF w.bp.state = stateDefunct
    THEN Res(w, Error("briefpg instance is defunct", <<>>, ""), <<>>, <<>>)
    ELSE IF w.bp.state < stateInitialized
    THEN LET i == initDB(w, x)
         IN  startServer(i.w, x, i.tr)
    ELSE startServer(w, x, <<>>)

\* Start, were it not to turn a defunct instance away
StartOf_NoDefunctCheck(w, x) ==
    IF w.bp.state < stateInitialized
    THEN LET i == initDB(w, x)
         IN  IF i.err # nil THEN i ELSE startServer(i.w, x, i.tr)
    ELSE startServer(w, x, <<>>)

StartOf(w, x) ==
    IF w.bp.state = stateDefunct
    THEN Res(w, Error("briefpg instance is defunct", <<>>, ""), <<>>, <<>>)
    ELSE IF w.bp.state < stateInitialized
    THEN LET i == initDB(w, x)
         IN  IF i.err # nil THEN i ELSE startServer(i.w, x, i.tr)
    ELSE startServer(w, x, <<>>)

----------------------------------------------------------------------------
(* CreateDB, DumpDB *)

\* CreateDB, were it not to look at the state
CreateDBOf_NoStateCheck(w, dbName, createArgs, r0) ==
    LET b    == w.bp
        scmd == <<"CREATE DATABASE \"", dbName, "\" ", createArgs>>
        cmd  == Command(Lookup(b.pgCmds, "psql"),
                        << <<"-c">>, scmd, DBUri(b, "postgres") >>)
        r    == Run(cmd, r0)
        tr   == <<Logf(cmd, "cmdline"), Ev("exec", cmd, r), Logf(cmd, "output")>>
    IN  IF r # "ok"
        THEN Res(w, wrapExecErr("CreateDB failed", cmd, r), tr, <<>>)
        ELSE Res(w, nil, tr, DBUri(b, dbName))

\* r0: the outcome of psql
CreateDBOf(w, dbName, createArgs, r0) ==
    LET b    == w.bp
        scmd == <<"CREATE DATABASE \"", dbName, "\" ", createArgs>>
        cmd  == Command(Lookup(b.pgCmds, "psql"),
                        << <<"-c">>, scmd, DBUri(b, "postgres") >>)
        r    == Run(cmd, r0)
        tr   == <<Logf(cmd, "cmdline"), Ev("exec", cmd, r), Logf(cmd, "output")>>
    IN  IF b.state < stateServerStarted
        THEN Res(w, Error("Server not started; cannot create database", <<>>, ""),
                 <<>>, <<>>)
        ELSE IF r # "ok"
        THEN Res(w, wrapExecErr("CreateDB failed", cmd, r), tr, <<>>)
        ELSE Res(w, nil, tr, DBUri(b, dbName))

\* how a dump can go: the pipe cannot be made, the process does not start,
\* the copy into w fails, the process exits non-zero, all is well
DumpResults == {"pipe", "launch", "copy", "exit", "ok"}

\* DumpDB, were a pg_dump that exits non-zero to be taken as the sign of a server
\* that is no longer running
DumpDBOf_MarkStopped(w, dbName, r0) ==
    LET b   == w.bp
        cmd == Command(Lookup(b.pgCmds, "pg_dump"), << DBUri(b, dbName) >>)
        r   == IF r0 # "pipe" /\ Run(cmd, r0) = "launch" THEN "launch" ELSE r0
        log == <<Logf(cmd, "cmdline")>>
    IN  IF b.state < stateServerStarted
        THEN Res(w, Error("Server not started; cannot dump database", <<>>, ""),
                 <<>>, <<>>)
        ELSE IF r = "pipe"
        THEN Res(w, Error("StdoutPipe", <<>>, ""), <<>>, <<>>)
        ELSE IF r = "launch"
        THEN Res(w, Error("exec", <<>>, ""), log \o <<Ev("exec", cmd, "launch")>>, <<>>)
        ELSE IF r = "copy"
        THEN Res(w, Error("io.Copy", <<>>, ""),
                 log \o <<Ev("exec", cmd, "started"), Ev("copy", cmd, "err")>>, <<>>)
        ELSE IF r = "exit"
        THEN Res([w EXCEPT !.bp.state = stateInitialized],
                 wrapExecErr("DumpDB failed", cmd, "exit"),
                 log \o <<Ev("exec", cmd, "started"), Ev("copy", cmd, "ok"),
                          Ev("wait", cmd, "exit")>>, <<>>)
        ELSE Res(w, nil,
                 log \o <<Ev("exec", cmd, "started"), Ev("copy", cmd, "ok"),
                          Ev("wait", cmd, "ok")>>, <<>>)

DumpDBOf(w, dbName, r0) ==
    LET b   == w.bp
        cmd == Command(Lookup(b.pgCmds, "pg_dump"), << DBUri(b, dbName) >>)
        r   == IF r0 # "pipe" /\ Run(cmd, r0) = "launch" THEN "launch" ELSE r0
        log == <<Logf(cmd, "cmdline")>>
    IN  IF b.state < stateServerStarted
        THEN Res(w, Error("Server not started; cannot dump database", <<>>, ""),
                 <<>>, <<>>)
        ELSE IF r = "pipe"
        THEN Res(w, Error("StdoutPipe", <<>>, ""), <<>>, <<>>)
        ELSE IF r = "launch"
        THEN Res(w, Error("exec", <<>>, ""), log \o <<Ev("exec", cmd, "launch")>>, <<>>)
        ELSE IF r = "copy"
        THEN Res(w, Error("io.Copy", <<>>, ""),
                 log \o <<Ev("exec", cmd, "started"), Ev("copy", cmd, "err")>>, <<>>)
        ELSE IF r = "exit"
        THEN Res(w, wrapExecErr("DumpDB failed", cmd, "exit"),
                 log \o <<Ev("exec", cmd, "started"), Ev("copy", cmd, "ok"),
                          Ev("wait", cmd, "exit")>>, <<>>)
        ELSE Res(w, nil,
                 log \o <<Ev("exec", cmd, "started"), Ev("copy", cmd, "ok"),
                          Ev("wait", cmd, "ok")>>, <<>>)

----------------------------------------------------------------------------
(* Fini, MustFini *)

\* the clean-up, were it to let go of the commands along with the directory
cleanUp_Forget(w, rmOk, tr) ==
    LET b  == w.bp
        rm == b.state >= statePresent /\ b.madeTmpDir
        w1 == IF rm /\ rmOk THEN RemoveAll(w, b.tmpDir) ELSE w
        tr1 == IF rm
               THEN <<Logf(NoCmd, "cleaning up"),
                      RmEv(b.tmpDir, IF rmOk THEN "ok" ELSE "err")>>
               ELSE <<>>
    IN  Res([w1 EXCEPT !.bp.state = stateDefunct, !.bp.pgCmds = NilCmds],
            nil, tr \o tr1, <<>>)

\* the clean-up, were it to remove the working directory whoever made it
cleanUp_AnyDir(w, rmOk, tr) ==
    LET b  == w.bp
        rm == b.state >= statePresent
        w1 == IF rm /\ rmOk THEN RemoveAll(w, b.tmpDir) ELSE w
        tr1 == IF rm
               THEN <<Logf(NoCmd, "cleaning up"),
                      RmEv(b.tmpDir, IF rmOk THEN "ok" ELSE "err")>>
               ELSE <<>>
    IN  Res([w1 EXCEPT !.bp.state = stateDefunct], nil, tr \o tr1, <<>>)

\* what Fini does after the server has been dealt with
\* the clean-up, were it to remove every directory ioutil.TempDir has made
cleanUp_AllTemp(w, rmOk, tr) ==
    LET b  == w.bp
        rm == b.state >= statePresent /\ b.madeTmpDir
        all == {b.tmpDir} \cup {TempName(n) : n \in 1..w.tempSeq}
        w1 == IF rm /\ rmOk
              THEN [w EXCEPT !.dirs = @ \ all,
                             !.dbdirs = {p \in @ : ~(Len(p) >= 1 /\ p[1] \in all)}]
              ELSE w
        tr1 == IF rm
               THEN <<Logf(NoCmd, "cleaning up"),
                      RmEv(b.tmpDir, IF rmOk THEN "ok" ELSE "err")>>
               ELSE <<>>
    IN  Res([w1 EXCEPT !.bp.state = stateDefunct], nil, tr \o tr1, <<>>)

cleanUp(w, rmOk, tr) ==
    LET b  == w.bp
        rm == b.state >= statePresent /\ b.madeTmpDir
        w1 == IF rm /\ rmOk THEN RemoveAll(w, b.tmpDir) ELSE w
        tr1 == IF rm
               THEN <<Logf(NoCmd, "cleaning up"),
                      RmEv(b.tmpDir, IF rmOk THEN "ok" ELSE "err")>>
               ELSE <<>>
    IN  Res([w1 EXCEPT !.bp.state = stateDefunct], nil, tr \o tr1, <<>>)

\* Fini, were it to clean up and end Defunct though the stop command failed
FiniOf_DefunctAnyway(w, r0, rmOk) ==
    LET b   == w.bp
        cmd == Command(Lookup(b.pgCmds, "pg_ctl"),
                       << <<"-m">>, <<"immediate">>, <<"-w">>, <<"-D">>, DbDir(b),
                          <<"stop">> >>)
        r   == Run(cmd, r0)
        tr  == <<Logf(cmd, "cmdline"), Ev("exec", cmd, r)>>
    IN  IF b.state >= stateServerStarted
        THEN IF r # "ok"
             THEN Res(cleanUp(w, rmOk, <<>>).w, wrapExecErr("Fini failed", cmd, r),
                      tr \o <<Logf(cmd, "output")>>, <<>>)
             ELSE cleanUp(w, rmOk, tr)
        ELSE cleanUp(w, rmOk, <<>>)

\* Fini, were it to stop the server of every instance that is initialized
FiniOf_StopIfInitialized(w, r0, rmOk) ==
    LET b   == w.bp
        cmd == Command(Lookup(b.pgCmds, "pg_ctl"),
                       << <<"-m">>, <<"immediate">>, <<"-w">>, <<"-D">>, DbDir(b),
                          <<"stop">> >>)
        r   == Run(cmd, r0)
        tr  == <<Logf(cmd, "cmdline"), Ev("exec", cmd, r)>>
    IN  IF b.state >= stateInitialized
        THEN IF r # "ok"
             THEN Res(w, wrapExecErr("Fini failed", cmd, r),
                      tr \o <<Logf(cmd, "output")>>, <<>>)
             ELSE cleanUp(w, rmOk, tr)
        ELSE cleanUp(w, rmOk, <<>>)

\* r0: the outcome of pg_ctl stop; rmOk: os.RemoveAll removes the directory
FiniOf(w, r0, rmOk) ==
    LET b   == w.bp
        cmd == Command(Lookup(b.pgCmds, "pg_ctl"),
                       << <<"-m">>, <<"immediate">>, <<"-w">>, <<"-D">>, DbDir(b),
                          <<"stop">> >>)
        r   == Run(cmd, r0)
        tr  == <<Logf(cmd, "cmdline"), Ev("exec", cmd, r)>>
    IN  IF b.state >= stateServerStarted
        THEN IF r # "ok"
             THEN Res(w, wrapExecErr("Fini failed", cmd, r),
                      tr \o <<Logf(cmd, "output")>>, <<>>)
             ELSE cleanUp(w, rmOk, tr)
        ELSE cleanUp(w, rmOk, <<>>)

\* MustFini panics when Fini returns an error
MustFiniPanics(r) == r.err # nil

----------------------------------------------------------------------------
(* the caller *)

DbNames == {"test_db"}

TheWorld == World(bp, dirs, dbdirs, tempSeq)

\* what a call found: the lifecycle state, the working directory, the directories
Snapshot ==
    [state |-> bp.state, tmpDir |-> bp.tmpDir, madeTmpDir |-> bp.madeTmpDir,
     dirs |-> dirs]

Call(name, opts, arg) == [name |-> name, opts |-> opts, arg |-> arg]

\* the call returns r, leaving the instance and the file system as r.w
Return(r) ==
    /\ bp' = r.w.bp
    /\ dirs' = r.w.dirs
    /\ dbdirs' = r.w.dbdirs
    /\ tempSeq' = r.w.tempSeq
    /\ err' = r.err
    /\ ret' = r.ret
    /\ trace' = r.tr
    /\ pre' = Snapshot
    /\ UNCHANGED <<host, peer, pc>>

OptionLists == UNION {[1..n -> Options] : n \in 0..MaxOpts}

Init ==
    /\ live = FALSE
    /\ bp = NewBriefPG
    /\ host \in Hosts
    /\ dirs = {"/u1"}
    /\ dbdirs \in IF host = HostWithPg THEN {{}, {Join("/u1", <<"12.4">>)}} ELSE {{}}
    /\ tempSeq = 0
    /\ op = Call("", <<>>, "")
    /\ err = nil
    /\ ret = <<>>
    /\ trace = <<>>
    /\ panicked = FALSE
    /\ pre = Snapshot
    /\ hist = [started |-> FALSE, finied |-> FALSE, startDir |-> <<>>]
    /\ peer = NewBriefPG
    /\ pc = <<>>

\* pg_ctl -V runs in OptPostgresPath alone
VersionResults(o) == IF o.k = "OptPostgresPath" THEN Outcomes ELSE {"ok"}

\* the caller constructs one instance, first of all
New ==
    /\ ~live
    /\ op.name = ""
    /\ \E options \in OptionLists, vd \in Outcomes :
        \E vrs \in {f \in [1..Len(options) -> Outcomes] :
                        \A i \in 1..Len(options) : f[i] \in VersionResults(options[i])} :
         LET n == NewOf(options, host, vrs, vd)
         IN  /\ live' = n.ok
             /\ Return(Res(World(IF n.ok THEN n.bp ELSE NewBriefPG, dirs, dbdirs, tempSeq),
                           n.err, n.tr, <<>>))
             /\ op' = Call("New", options, "")
             /\ UNCHANGED <<hist, panicked>>

SetOption ==
    /\ live
    /\ \E o \in Options :
       \E vr \in VersionResults(o) :
         LET a == apply(o, bp, host, vr)
         IN  /\ Return(Res([TheWorld EXCEPT !.bp = a.bp], a.err, a.tr, <<>>))
             /\ op' = Call("SetOption", <<o>>, "")
             /\ UNCHANGED <<live, hist, panicked>>

\* the results of the external steps a Start can reach from the state it is
\* called in: ioutil.TempDir, initdb, writing postgresql.conf, pg_ctl start
StartInputs ==
    LET init == bp.state < stateInitialized
    IN  [mktemp : IF init /\ bp.tmpDir = "" THEN BOOLEAN ELSE {TRUE},
         initdb : IF init THEN Outcomes ELSE {"ok"},
         conf   : IF init THEN {"ok", "open", "execute"} ELSE {"ok"},
         start  : IF bp.state = stateDefunct THEN {"ok"} ELSE Outcomes]

Start ==
    /\ live
    /\ \E x \in StartInputs :
         LET r == StartOf(TheWorld, x)
         IN  /\ Return(r)
             /\ op' = Call("Start", <<>>, "")
             /\ hist' = [hist EXCEPT !.started = @ \/ r.err = nil,
                                     !.startDir = IF r.err = nil THEN DbDir(r.w.bp)
                                                  ELSE @]
             /\ UNCHANGED <<live, panicked>>

\* no subprocess is reached by a call that the state check turns away
ClientResults(all) == IF bp.state < stateServerStarted THEN {"ok"} ELSE all

CreateDB ==
    /\ live
    /\ \E dbName \in DbNames, r0 \in ClientResults(Outcomes) :
         /\ Return(CreateDBOf(TheWorld, dbName, "", r0))
         /\ op' = Call("CreateDB", <<>>, dbName)
         /\ UNCHANGED <<live, hist, panicked>>

DumpDB ==
    /\ live
    /\ \E dbName \in DbNames, r0 \in ClientResults(DumpResults) :
         /\ Return(DumpDBOf(TheWorld, dbName, r0))
         /\ op' = Call("DumpDB", <<>>, dbName)
         /\ UNCHANGED <<live, hist, panicked>>

\* bp.DBUri(dbName)
GetDBUri ==
    /\ live
    /\ \E dbName \in DbNames :
         /\ Return(Res(TheWorld, nil, <<>>, DBUri(bp, dbName)))
         /\ op' = Call("DBUri", <<>>, dbName)
         /\ UNCHANGED <<live, hist, panicked>>

\* os.RemoveAll is reached only for a directory the instance made
RemoveResults == IF bp.madeTmpDir THEN BOOLEAN ELSE {TRUE}

Fini ==
    /\ live
    /\ \E r0 \in ClientResults(Outcomes), rmOk \in RemoveResults :
         LET r == FiniOf(TheWorld, r0, rmOk)
         IN  /\ Return(r)
             /\ op' = Call("Fini", <<>>, "")
             /\ hist' = [hist EXCEPT !.finied = @ \/ r.err = nil]
             /\ UNCHANGED <<live, panicked>>

MustFini ==
    /\ live
    /\ \E r0 \in ClientResults(Outcomes), rmOk \in RemoveResults :
         LET r == FiniOf(TheWorld, r0, rmOk)
         IN  /\ Return(r)
             /\ op' = Call("MustFini", <<>>, "")
             /\ hist' = [hist EXCEPT !.finied = @ \/ r.err = nil]
             /\ panicked' = MustFiniPanics(r)
             /\ UNCHANGED live

Next ==
    New \/ SetOption \/ Start \/ CreateDB \/ DumpDB \/ GetDBUri \/ Fini \/ MustFini

Spec == Init /\ [][Next]_vars

----------------------------------------------------------------------------
(* findPostgres on its own, on every machine of a small family *)

LocDirs == {"", "/a", "/b", "/c"}

\* what a directory can hold: some of the utilities, or all of them
FileSets == {{"psql", "pg_dump"}, {"psql", "initdb", "pg_ctl"}, AllUtilities}

\* strings.Split(os.Getenv("PATH"), ":"): one directory or two, "" among them
LocPaths ==
    {<<d>> : d \in {"", "/a", "/b"}}
    \cup {<<d, e>> : d \in {"", "/a", "/b"}, e \in {"/a", "/b"}}

\* what the first glob matches
LocGlobs == {<<>>, <<"/c">>, <<"/b", "/c">>}

LocHosts ==
    {[PATH    |-> p,
      glob    |-> [g \in Range(tryGlobs) |-> IF g = tryGlobs[1] THEN m ELSE <<>>],
      files   |-> f,
      version |-> [d \in LocDirs |-> VersionA]] :
        p \in LocPaths, m \in LocGlobs, f \in [LocDirs -> FileSets]}

\* the paths findPostgres is called with
LocHints == {"", "/a", "/c", "/garbage/path"}

LocInit ==
    /\ live = FALSE
    /\ bp = NewBriefPG
    /\ host \in LocHosts
    /\ dirs = {}
    /\ dbdirs = {}
    /\ tempSeq = 0
    /\ op = Call("", <<>>, "")
    /\ err = nil
    /\ ret = <<>>
    /\ trace = <<>>
    /\ panicked = FALSE
    /\ pre = Snapshot
    /\ hist = [started |-> FALSE, finied |-> FALSE, startDir |-> <<>>]
    /\ peer = NewBriefPG
    /\ pc = <<>>

\* findPostgres(path): ret is the map returned, trace the directories tried
FindPostgres ==
    \E path \in LocHints :
        /\ op' = Call("findPostgres", <<>>, path)
        /\ err' = findPostgres(path, host).err
        /\ ret' = findPostgres(path, host).cmds
        /\ trace' = pathsTried(host, allPathsOf(path, host))
        /\ UNCHANGED <<live, bp, host, dirs, dbdirs, tempSeq, panicked, pre, hist,
                       peer, pc>>

IsInstalled ==
    \E path \in LocHints :
        /\ op' = Call("PostgresInstalled", <<>>, path)
        /\ err' = PostgresInstalled(path, host)
        /\ ret' = <<>>
        /\ trace' = pathsTried(host, allPathsOf(path, host))
        /\ UNCHANGED <<live, bp, host, dirs, dbdirs, tempSeq, panicked, pre, hist,
                       peer, pc>>

LocNext == FindPostgres \/ IsInstalled

SpecLocator == LocInit /\ [][LocNext]_vars

----------------------------------------------------------------------------
(* two instances on one machine, their calls interleaved *)

\* the instance New(OptTmpDir(d)) returns where PostgreSQL is installed
BuiltIn(d) == NewOf(<<Option("OptTmpDir", d)>>, HostWithPg, <<"ok">>, "ok").bp

Inst(i) == IF i = 1 THEN bp ELSE peer

\* the working directory of the other instance, when that is not one's own
Foreign(i) == {Inst(3 - i).tmpDir} \ {"", Inst(i).tmpDir}

\* the instance i and the file system, as a call on i finds them
Shared(i) == World(Inst(i), dirs, dbdirs, tempSeq)

\* the same, were the other instance and its directory not there
Alone(i) ==
    World(Inst(i), dirs \ Foreign(i),
          {p \in dbdirs : ~(Len(p) >= 1 /\ p[1] \in Foreign(i))}, tempSeq)

TwoInit ==
    /\ live = TRUE
    /\ bp \in {BuiltIn(d) : d \in {"", "/u1"}}
    /\ peer \in {BuiltIn(d) : d \in {"", "/u2"}}
    /\ host = HostWithPg
    /\ dirs = {"/u1", "/u2"}
    /\ dbdirs = {}
    /\ tempSeq = 0
    /\ op = Call("", <<>>, "")
    /\ err = nil
    /\ ret = <<>>
    /\ trace = <<>>
    /\ panicked = FALSE
    /\ pre = Snapshot
    /\ hist = [started |-> FALSE, finied |-> FALSE, startDir |-> <<>>]
    /\ pc = <<>>

\* the call name(x) on instance i returns r
TwoReturn(i, r, name, x) ==
    /\ bp' = IF i = 1 THEN r.w.bp ELSE bp
    /\ peer' = IF i = 2 THEN r.w.bp ELSE peer
    /\ dirs' = r.w.dirs
    /\ dbdirs' = r.w.dbdirs
    /\ tempSeq' = r.w.tempSeq
    /\ err' = r.err
    /\ ret' = r.ret
    /\ trace' = r.tr
    /\ op' = Call(name, <<>>, [who |-> i, x |-> x])
    /\ UNCHANGED <<live, host, panicked, pre, hist, pc>>

TwoStartInputs ==
    [mktemp : {TRUE}, initdb : {"ok", "exit"}, conf : {"ok"}, start : {"ok", "exit"}]

TwoStart ==
    \E i \in 1..2, x \in TwoStartInputs :
        TwoReturn(i, StartOf(Shared(i), x), "Start", x)

TwoCreateDB ==
    \E i \in 1..2, r0 \in {"ok", "exit"} :
        TwoReturn(i, CreateDBOf(Shared(i), "test_db", "", r0), "CreateDB", r0)

TwoFini ==
    \E i \in 1..2, r0 \in {"ok", "exit"} :
        TwoReturn(i, FiniOf(Shared(i), r0, TRUE), "Fini", r0)

TwoNext == TwoStart \/ TwoCreateDB \/ TwoFini

SpecTwo == TwoInit /\ [][TwoNext]_vars

----------------------------------------------------------------------------
(* two goroutines calling Start on one instance, then Fini.  Nothing in the
   struct is locked: each read and each write of a field is a step of its own,
   and a read that races with a write sees the value before it or the value
   after it.  pc.at[t] is the statement goroutine t is at (the source line),
   pc.dir[t] and pc.err[t] are what ioutil.TempDir returned to it, and
   hist.recorded is the sequence of values stored in bp.tmpDir.  From the stat
   of the data directory on, a goroutine writes no field but bp.state, and
   those statements are taken together. *)

Threads == 1..2

RaceInit ==
    /\ live = TRUE
    /\ bp \in {BuiltIn(d) : d \in {"", "/u1"}}
    /\ peer = NewBriefPG
    /\ host = HostWithPg
    /\ dirs = {}
    /\ dbdirs = {}
    /\ tempSeq = 0
    /\ op = Call("", <<>>, "")
    /\ err = nil
    /\ ret = <<>>
    /\ trace = <<>>
    /\ panicked = FALSE
    /\ pre = Snapshot
    /\ hist = [started |-> FALSE, finied |-> FALSE, startDir |-> <<>>,
               recorded |-> <<>>]
    /\ pc = [at |-> [t \in Threads |-> "s535"],
             dir |-> [t \in Threads |-> ""],
             err |-> [t \in Threads |-> nil]]

\* goroutine t goes on to the statement at line l
Goto(t, l) ==
    /\ pc' = [pc EXCEPT !.at[t] = l]
    /\ UNCHANGED <<op, err>>

\* the Start of goroutine t returns e
RaceReturn(t, e) ==
    /\ pc' = [pc EXCEPT !.at[t] = "done"]
    /\ op' = Call("Start", <<>>, t)
    /\ err' = e

\* line 535: if bp.state == stateDefunct
CheckDefunct ==
    \E t \in Threads :
        /\ pc.at[t] = "s535"
        /\ IF bp.state = stateDefunct
           THEN RaceReturn(t, Error("briefpg instance is defunct", <<>>, ""))
           ELSE Goto(t, "s539")
        /\ UNCHANGED <<live, bp, host, dirs, dbdirs, tempSeq, ret, trace, panicked,
                       pre, hist, peer>>

\* line 539: if bp.state < stateInitialized
CheckState ==
    \E t \in Threads :
        /\ pc.at[t] = "s539"
        /\ Goto(t, IF bp.state < stateInitialized THEN "s487" ELSE "s549")
        /\ UNCHANGED <<live, bp, host, dirs, dbdirs, tempSeq, ret, trace, panicked,
                       pre, hist, peer>>

\* line 487: if bp.tmpDir == ""
CheckTmpDir ==
    \E t \in Threads :
        /\ pc.at[t] = "s487"
        /\ Goto(t, IF bp.tmpDir = "" THEN "s466" ELSE "s492")
        /\ UNCHANGED <<live, bp, host, dirs, dbdirs, tempSeq, ret, trace, panicked,
                       pre, hist, peer>>

\* line 466, the right-hand side: ioutil.TempDir("", dirPrefix)
CallTempDir ==
    \E t \in Threads, ok \in BOOLEAN :
        /\ pc.at[t] = "s466"
        /\ dirs' = mkTemp(TheWorld, ok).w.dirs
        /\ tempSeq' = mkTemp(TheWorld, ok).w.tempSeq
        /\ trace' = trace \o mkTemp(TheWorld, ok).tr
        /\ pc' = [pc EXCEPT !.at[t] = "s466w",
                            !.dir[t] = mkTemp(TheWorld, ok).w.bp.tmpDir,
                            !.err[t] = mkTemp(TheWorld, ok).err]
        /\ UNCHANGED <<live, bp, host, dbdirs, op, err, ret, panicked, pre, hist, peer>>

\* line 466, the assignment to bp.tmpDir, and lines 467-469
StoreTmpDir ==
    \E t \in Threads :
        /\ pc.at[t] = "s466w"
        /\ bp' = [bp EXCEPT !.tmpDir = pc.dir[t]]
        /\ hist' = [hist EXCEPT !.recorded = Append(@, pc.dir[t])]
        /\ IF pc.err[t] # nil THEN RaceReturn(t, pc.err[t]) ELSE Goto(t, "s470")
        /\ UNCHANGED <<live, host, dirs, dbdirs, tempSeq, ret, trace, panicked, pre,
                       peer>>

\* line 470: bp.madeTmpDir = true
SetMadeTmpDir ==
    \E t \in Threads :
        /\ pc.at[t] = "s470"
        /\ bp' = [bp EXCEPT !.madeTmpDir = TRUE]
        /\ Goto(t, "s491")
        /\ UNCHANGED <<live, host, dirs, dbdirs, tempSeq, ret, trace, panicked, pre,
                       hist, peer>>

\* line 491: bp.state = statePresent
SetPresent ==
    \E t \in Threads :
        /\ pc.at[t] = "s491"
        /\ bp' = [bp EXCEPT !.state = statePresent]
        /\ Goto(t, "s497")
        /\ UNCHANGED <<live, host, dirs, dbdirs, tempSeq, ret, trace, panicked, pre,
                       hist, peer>>

\* line 492: os.Stat(bp.tmpDir)
StatTmp ==
    \E t \in Threads :
        /\ pc.at[t] = "s492"
        /\ Goto(t, IF StatTmpDir(TheWorld) THEN "s497" ELSE "s493")
        /\ UNCHANGED <<live, bp, host, dirs, dbdirs, tempSeq, ret, trace, panicked,
                       pre, hist, peer>>

\* lines 493-494: bp.state = stateNotPresent, and the error
SetNotPresent ==
    \E t \in Threads :
        /\ pc.at[t] = "s493"
        /\ bp' = [bp EXCEPT !.state = stateNotPresent]
        /\ RaceReturn(t, Error("Tmpdir not present or not readable", <<>>, "stat"))
        /\ UNCHANGED <<live, host, dirs, dbdirs, tempSeq, ret, trace, panicked, pre,
                       hist, peer>>

\* lines 497-529, and 540-544 of Start
InitData ==
    \E t \in Threads, x \in TwoStartInputs :
        /\ pc.at[t] = "s497"
        /\ bp' = initData(TheWorld, x).w.bp
        /\ dirs' = initData(TheWorld, x).w.dirs
        /\ dbdirs' = initData(TheWorld, x).w.dbdirs
        /\ trace' = trace \o initData(TheWorld, x).tr
        /\ IF initData(TheWorld, x).err # nil
           THEN RaceReturn(t, initData(TheWorld, x).err)
           ELSE Goto(t, "s549")
        /\ UNCHANGED <<live, host, tempSeq, ret, panicked, pre, hist, peer>>

\* lines 546-558
StartServer ==
    \E t \in Threads, x \in TwoStartInputs :
        /\ pc.at[t] = "s549"
        /\ bp' = startServer(TheWorld, x, <<>>).w.bp
        /\ trace' = trace \o startServer(TheWorld, x, <<>>).tr
        /\ RaceReturn(t, startServer(TheWorld, x, <<>>).err)
        /\ UNCHANGED <<live, host, dirs, dbdirs, tempSeq, ret, panicked, pre, hist,
                       peer>>

\* Fini, called once both Starts have returned
RaceFini ==
    \E r0 \in {"ok", "exit"}, rmOk \in BOOLEAN :
        /\ \A t \in Threads : pc.at[t] = "done"
        /\ op.name # "Fini"
        /\ bp' = FiniOf(TheWorld, r0, rmOk).w.bp
        /\ dirs' = FiniOf(TheWorld, r0, rmOk).w.dirs
        /\ dbdirs' = FiniOf(TheWorld, r0, rmOk).w.dbdirs
        /\ trace' = trace \o FiniOf(TheWorld, r0, rmOk).tr
        /\ err' = FiniOf(TheWorld, r0, rmOk).err
        /\ op' = Call("Fini", <<>>, "")
        /\ UNCHANGED <<live, host, tempSeq, ret, panicked, pre, hist, peer, pc>>

RaceNext ==
    \/ CheckDefunct
    \/ CheckState
    \/ CheckTmpDir
    \/ CallTempDir
    \/ StoreTmpDir
    \/ SetMadeTmpDir
    \/ SetPresent
    \/ StatTmp
    \/ SetNotPresent
    \/ InitData
    \/ StartServer
    \/ RaceFini

SpecRace == RaceInit /\ [][RaceNext]_vars

----------------------------------------------------------------------------
(* what the claims speak of *)

IsFini == op.name \in {"Fini", "MustFini"}

IsClient == op.name \in {"CreateDB", "DumpDB"}

\* the last argument of a command: "start", "stop"
Verb(cmd) == IF cmd.Args = <<>> THEN <<>> ELSE cmd.Args[Len(cmd.Args)]

\* the subprocesses of a call that ran pg_ctl with this verb
ExecsOf(tr, verb) ==
    {i \in DOMAIN tr : tr[i].k = "exec" /\ Verb(tr[i].cmd) = <<verb>>}

\* the directories a call removed, or tried to
Removals(tr) == {tr[i].opt.v : i \in {j \in DOMAIN tr : tr[j].k = "rm"}}

\* the directories ioutil.TempDir has made for this instance
Generated == {TempName(n) : n \in 1..tempSeq}

\* the directories a caller names in OptTmpDir
CallerDirs == {o.v : o \in {q \in Options : q.k = "OptTmpDir"}} \ {""}

ErrDefunct == "briefpg instance is defunct"

ErrNotReady == "Tmpdir not present or not readable"

ErrNotRunning ==
    {"Server not started; cannot create database",
     "Server not started; cannot dump database"}

\* the working directory the call found was named by the caller, and is missing
MissingCallerDir ==
    pre.tmpDir # "" /\ ~pre.madeTmpDir /\ pre.tmpDir \notin pre.dirs

----------------------------------------------------------------------------
(* C1 -- C10 *)

\* C1: a Fini called on an instance that an earlier Fini has already torn down
\* (the state it finds is Defunct) runs no subprocess, removes no directory,
\* returns nil and leaves the state Defunct; MustFini does not panic.
C1_FiniIdempotent ==
    (IsFini /\ pre.state = stateDefunct) =>
        /\ Execs(trace) = <<>>
        /\ Removals(trace) = {}
        /\ err = nil
        /\ bp.state = stateDefunct
        /\ ~panicked

\* C2: whenever a Fini has returned, with or without an error, the state is
\* Defunct.
C2_FiniEndsDefunct == IsFini => bp.state = stateDefunct

\* C3: no call leaves the Defunct state, and a Start that finds the state
\* Defunct returns the defunct error having done nothing: no subprocess, no
\* step of initDB, no change to the directories.
C3_DefunctTerminal ==
    /\ (live /\ pre.state = stateDefunct) => bp.state = stateDefunct
    /\ (op.name = "Start" /\ pre.state = stateDefunct) =>
           /\ err.msg = ErrDefunct
           /\ trace = <<>>
           /\ dirs = pre.dirs

\* C3, its case: a Start that had succeeded, a teardown, and a Start again
C3_Witness ==
    /\ op.name = "Start"
    /\ pre.state = stateDefunct
    /\ hist.started
    /\ err.msg = ErrDefunct

\* C4: Fini never removes a directory the caller named: every directory a call
\* removes is one ioutil.TempDir made for this instance, and a caller's
\* directory that existed before a call exists after it.
C4_CallerDirSurvives ==
    /\ Removals(trace) \subseteq Generated
    /\ Removals(trace) \cap CallerDirs = {}
    /\ \A d \in CallerDirs : d \in pre.dirs => d \in dirs

\* C4, its case: a server started in the caller's directory has been torn down
C4_Witness ==
    /\ IsFini
    /\ err = nil
    /\ pre.state = stateServerStarted
    /\ pre.tmpDir \in CallerDirs
    /\ pre.tmpDir \in dirs

\* the call tried to remove a directory and the machine did not let it
RemovalFailed == \E i \in DOMAIN trace : trace[i].k = "rm" /\ trace[i].res = "err"

\* C5: once a Fini has returned on an instance for which mkTemp made a
\* directory, that directory no longer exists (the machine permitting: a
\* removal that os.RemoveAll itself fails is not counted against the claim).
C5_GeneratedDirRemoved ==
    (IsFini /\ pre.madeTmpDir /\ ~RemovalFailed) => pre.tmpDir \notin dirs

\* C6: CreateDB and DumpDB called in a state below ServerStarted return the
\* "Server not started" error, run no subprocess, copy nothing to the writer,
\* and CreateDB returns the empty string.
C6_NotRunning ==
    (IsClient /\ pre.state < stateServerStarted) =>
        /\ err.msg \in ErrNotRunning
        /\ trace = <<>>
        /\ ret = <<>>

\* C6, its case: CreateDB on an instance that was never started
C6_Witness ==
    /\ op.name = "CreateDB"
    /\ ~hist.started
    /\ pre.state = stateUninitialized
    /\ err.msg \in ErrNotRunning

\* C7: CreateDB and DumpDB called in any state but ServerStarted -- Defunct
\* included -- fail and run no subprocess.
C7_FailFastUnlessStarted ==
    (IsClient /\ pre.state # stateServerStarted) =>
        /\ err # nil
        /\ Execs(trace) = <<>>

\* C8 as stated: whenever Start finds a caller's working directory missing it
\* returns the not-ready error, has run no subprocess and made no directory,
\* and the state is NotPresent.
C8_NotReadyAlways ==
    (op.name = "Start" /\ MissingCallerDir) =>
        /\ err.msg = ErrNotReady
        /\ trace = <<>>
        /\ dirs = pre.dirs
        /\ bp.state = stateNotPresent

\* C8 amended: the same of a Start that finds the state below Initialized
\* (the Start that runs initDB).
C8_NotReady ==
    (op.name = "Start" /\ MissingCallerDir /\ pre.state < stateInitialized) =>
        /\ err.msg = ErrNotReady
        /\ trace = <<>>
        /\ dirs = pre.dirs
        /\ bp.state = stateNotPresent

\* C8, its case: the first Start of an instance built with a missing directory
C8_Witness ==
    /\ op.name = "Start"
    /\ pre.state = stateUninitialized
    /\ pre.tmpDir = "/some/bogus/path"
    /\ err.msg = ErrNotReady
    /\ bp.state = stateNotPresent

\* the call found the state a not-ready failure leaves, and the directory d
\* that the caller has since named exists
Recovering ==
    /\ pre.state = stateNotPresent
    /\ ~pre.madeTmpDir
    /\ pre.tmpDir \in pre.dirs

\* C9: after a not-ready failure (state NotPresent) OptTmpDir is accepted; the
\* next Start, finding the directory d, does not fail as not ready but runs
\* initDB in d -- every command it runs is given a data directory under d --
\* and when initdb (if run) and pg_ctl start succeed the state is
\* ServerStarted, with the data directory under d.
C9_NotReadyRecoverable ==
    /\ (op.name = "SetOption" /\ op.opts[1].k = "OptTmpDir"
            /\ pre.state = stateNotPresent /\ ~pre.madeTmpDir) =>
           /\ err = nil
           /\ bp.tmpDir = op.opts[1].v
    /\ (op.name = "Start" /\ Recovering) =>
           /\ err.msg # ErrNotReady
           /\ trace # <<>>
           /\ bp.tmpDir = pre.tmpDir
           /\ \A i \in DOMAIN trace :
                  trace[i].k = "exec" =>
                      \E j \in DOMAIN trace[i].cmd.Args :
                          trace[i].cmd.Args[j] = Join(pre.tmpDir, bp.pgVer)
           /\ (/\ \A i \in DOMAIN trace : trace[i].k = "exec" => trace[i].res = "ok"
               /\ ExecsOf(trace, "start") # {}) =>
                  /\ bp.state = stateServerStarted
                  /\ err = nil
                  /\ StatDbDir(TheWorld)

\* C9, its case: the Start after the repair has started the server
C9_Witness ==
    /\ op.name = "Start"
    /\ Recovering
    /\ pre.tmpDir = "/u1"
    /\ bp.state = stateServerStarted

\* the options New applied, in the order it applied them
Applied == SelectEv(trace, "apply")

\* C10: New applies its options in the order given and stops at the first
\* that fails; it returns an error and no instance if an option or the default
\* lookup failed, and an instance exactly when every option was applied with
\* success and the commands of an engine are set.
C10_NewAtomic ==
    op.name = "New" =>
        /\ Len(Applied) <= Len(op.opts)
        /\ \A i \in 1..Len(Applied) : Applied[i].opt = op.opts[i]
        /\ \A i \in 1..(Len(Applied) - 1) : Applied[i].res = "ok"
        /\ live <=> err = nil
        /\ live =>
               /\ Len(Applied) = Len(op.opts)
               /\ \A i \in 1..Len(Applied) : Applied[i].res = "ok"
               /\ DOMAIN bp.pgCmds = AllUtilities
        /\ (\E i \in 1..Len(Applied) : Applied[i].res = "err") => ~live

\* C10, its case: the first of two options failed, the second was not applied
C10_Witness ==
    /\ op.name = "New"
    /\ Len(op.opts) = 2
    /\ Len(Applied) = 1
    /\ Applied[1].res = "err"
    /\ ~live
    /\ err # nil

----------------------------------------------------------------------------
(* C11 -- C20 *)

\* the call being made is SetOption with an option of one of these kinds
SettingOption(kinds) == op'.name = "SetOption" /\ op'.opts[1].k \in kinds

ErrPathTooLate == "postgres path cannot be set after db has been initialized"

\* C11: SetOption(OptPostgresPath(dir)), for any dir, on an instance whose
\* state is Initialized, ServerStarted or Defunct returns an error, looks for
\* no engine and runs nothing, and leaves pgCmds and pgVer as they were.
C11_PathIllegalOnceInitialized ==
    [][(SettingOption({"OptPostgresPath"}) /\ bp.state >= stateInitialized) =>
           /\ err' # nil
           /\ trace' = <<>>
           /\ bp'.pgCmds = bp.pgCmds
           /\ bp'.pgVer = bp.pgVer]_vars

\* C11, its case: the path is set on a started server, and is refused
C11_Witness ==
    /\ op.name = "SetOption"
    /\ op.opts[1] = Option("OptPostgresPath", "/pgB/bin")
    /\ pre.state = stateServerStarted
    /\ err.msg = ErrPathTooLate
    /\ DOMAIN bp.pgCmds = AllUtilities

\* C12: SetOption(OptPostgresEncoding(..)) and SetOption(OptLogFunc(..)) on an
\* instance whose state is Initialized, ServerStarted or Defunct return an
\* error and leave the encoding and the log function as they were.
C12_EncodingAndLogSinkFrozen ==
    [][(SettingOption({"OptPostgresEncoding", "OptLogFunc"})
            /\ bp.state >= stateInitialized) =>
           /\ err' # nil
           /\ bp'.encoding = bp.encoding
           /\ bp'.logf = bp.logf]_vars

\* the data directory a pg_ctl command line names: what follows "-D"
DataDirOf(cmd) ==
    LET at == {i \in 1..(Len(cmd.Args) - 1) : cmd.Args[i] = <<"-D">>}
    IN  IF at = {} THEN <<>> ELSE cmd.Args[(CHOOSE i \in at : TRUE) + 1]

\* C13: once a Start has succeeded, SetOption(OptTmpDir(..)) returns an error
\* and leaves the working directory as it was, and every stop command a Fini
\* runs names the data directory the server was started in.
C13_TmpDirFixedOnceStarted ==
    [][/\ (SettingOption({"OptTmpDir"}) /\ hist.started) =>
               /\ err' # nil
               /\ bp'.tmpDir = bp.tmpDir
       /\ (op'.name \in {"Fini", "MustFini"} /\ hist.started) =>
               \A i \in ExecsOf(trace', "stop") :
                   DataDirOf(trace'[i].cmd) = hist.startDir]_vars

\* the candidate directories of the call, in order: the hint alone when there
\* is one, else the search path and then what the globs match
Candidates ==
    IF op.arg # "" THEN <<op.arg>> ELSE host.PATH \o globAll(host, tryGlobs)

\* the directory holds all four utilities
Full(d) == \A u \in {"psql", "initdb", "pg_ctl", "pg_dump"} : StatFile(host, d, u)

\* the map returned is the four utilities, each in directory d
AllIn(d) ==
    /\ DOMAIN ret = {"psql", "initdb", "pg_ctl", "pg_dump"}
    /\ \A u \in DOMAIN ret : ret[u] = Join(d, <<u>>)

\* C14: findPostgres returns either no map, or the four utilities all in the
\* first candidate that holds all four; every candidate before it lacks one,
\* and the directories looked into are the candidates up to it and none after.
C14_FirstFullDirWins ==
    op.name = "findPostgres" =>
        /\ DOMAIN ret \in {{}, {"psql", "initdb", "pg_ctl", "pg_dump"}}
        /\ err = nil <=> DOMAIN ret # {}
        /\ err = nil =>
               \E i \in 1..Len(Candidates) :
                   /\ Full(Candidates[i])
                   /\ \A j \in 1..(i - 1) : ~Full(Candidates[j])
                   /\ AllIn(Candidates[i])
                   /\ trace = SubSeq(Candidates, 1, i)

\* C14, its case: a directory with some of the utilities comes first, the
\* winner second, and another directory with all four after it
C14_Witness ==
    /\ op.name = "findPostgres"
    /\ op.arg = ""
    /\ err = nil
    /\ Len(Candidates) >= 3
    /\ ~Full(Candidates[1])
    /\ Full(Candidates[2])
    /\ Full(Candidates[3])
    /\ Candidates[3] # Candidates[2]
    /\ AllIn(Candidates[2])

\* C15: with a hint, findPostgres succeeds exactly when the hinted directory
\* holds all four utilities, returns them from that directory and looks
\* nowhere else; with or without a hint it fails -- with the not-found error
\* that lists the candidates -- exactly when no candidate holds all four.
C15_HintIsSoleCandidate ==
    op.name \in {"findPostgres", "PostgresInstalled"} =>
        /\ op.arg # "" =>
               /\ err = nil <=> Full(op.arg)
               /\ trace = <<op.arg>>
               /\ (op.name = "findPostgres" /\ err = nil) => AllIn(op.arg)
        /\ err # nil <=> \A i \in 1..Len(Candidates) : ~Full(Candidates[i])
        /\ err # nil =>
               /\ err.msg = "couldn't find Postgres; tried"
               /\ err.args = [i \in 1..Len(Candidates) |-> <<Candidates[i]>>]

\* C15, its case: the hinted directory lacks a utility while a directory of
\* the search path holds all four, and the call fails
C15_Witness ==
    /\ op.name = "findPostgres"
    /\ op.arg = "/c"
    /\ ~Full("/c")
    /\ \E i \in 1..Len(host.PATH) : Full(host.PATH[i])
    /\ err # nil
    /\ ret = NilCmds

\* C16 as stated: the state a call leaves is never below the state it found,
\* but for NotPresent left when the caller's working directory is missing; and
\* a call that finds the state above Present never leaves a lower one.
C16_Monotonic ==
    live =>
        /\ bp.state < pre.state => (bp.state = stateNotPresent /\ MissingCallerDir)
        /\ pre.state > statePresent => bp.state >= pre.state

\* C16 amended: a call that finds the state Initialized or above never leaves a
\* lower one; the state goes down only in a Start that finds it below
\* Initialized and fails in initDB -- to NotPresent when the caller's working
\* directory is missing, to Present when initDB has made a working directory.
C16_MonotonicOnceInitialized ==
    live =>
        /\ pre.state >= stateInitialized => bp.state >= pre.state
        /\ bp.state < pre.state =>
               /\ op.name = "Start"
               /\ pre.state < stateInitialized
               /\ err # nil
               /\ \/ /\ bp.state = stateNotPresent
                     /\ MissingCallerDir
                     /\ err.msg = ErrNotReady
                  \/ /\ bp.state = statePresent
                     /\ ~pre.madeTmpDir
                     /\ bp.madeTmpDir

\* C16, its case: the first Start made a working directory and initdb failed,
\* which leaves the state Present, below the Uninitialized it began in
C16_Witness ==
    /\ op.name = "Start"
    /\ pre.state = stateUninitialized
    /\ bp.state = statePresent
    /\ bp.madeTmpDir
    /\ err.msg = "initDB failed"

\* C17 as stated: once New has returned an instance, with its commands found,
\* no call changes pgCmds.
C17_CommandsSetOnce ==
    [][(live /\ DOMAIN bp.pgCmds # {}) => bp'.pgCmds = bp.pgCmds]_vars

\* C17 amended: once New has returned an instance, pgCmds is changed by
\* nothing but SetOption(OptPostgresPath(..)) on a state below Initialized:
\* Start, CreateDB, DumpDB, Fini, MustFini, every other option, and
\* OptPostgresPath from Initialized on, leave it as it was.
C17_CommandsChangeOnlyByPath ==
    [][(live /\ bp'.pgCmds # bp.pgCmds) =>
           (SettingOption({"OptPostgresPath"}) /\ bp.state < stateInitialized)]_vars

\* C17, its case: the instance New built on one engine has been given
\* another by SetOption, and has gone on to start and be torn down
C17_Witness ==
    /\ host = HostWithPg
    /\ IsFini
    /\ hist.started
    /\ bp.state = stateDefunct
    /\ DOMAIN bp.pgCmds = AllUtilities
    /\ bp.pgCmds["pg_ctl"] = Join("/pgB/bin", <<"pg_ctl">>)

\* C18: a Fini that finds the state ServerStarted or above runs the stop
\* command, and runs it before it removes any directory; a Fini runs a stop
\* command only if it found the state ServerStarted or above, and never on an
\* instance no Start of which has succeeded.
C18_StopFirst ==
    IsFini =>
        /\ pre.state >= stateServerStarted =>
               /\ ExecsOf(trace, "stop") # {}
               /\ \A i \in ExecsOf(trace, "stop") :
                      \A j \in DOMAIN trace : trace[j].k = "rm" => i < j
        /\ ExecsOf(trace, "stop") # {} => pre.state >= stateServerStarted
        /\ ~hist.started => ExecsOf(trace, "stop") = {}

\* C19: a Fini that finds the state NotPresent, Present, Uninitialized or
\* Initialized -- the states of an instance no Start of which has succeeded --
\* runs no subprocess, returns nil and leaves the state Defunct; MustFini does
\* not panic.
C19_FiniWithoutStart ==
    (IsFini /\ pre.state < stateServerStarted) =>
        /\ ~hist.started
        /\ Execs(trace) = <<>>
        /\ err = nil
        /\ ~panicked
        /\ bp.state = stateDefunct

\* C19, its case: initDB had succeeded and the start command failed, and the
\* instance, left Initialized, is torn down
C19_Witness ==
    /\ IsFini
    /\ pre.state = stateInitialized
    /\ ~hist.started
    /\ Execs(trace) = <<>>
    /\ err = nil
    /\ bp.state = stateDefunct

\* the steps of initDB a call took: making the working directory, running
\* initdb, announcing and writing postgresql.conf
InitSteps ==
    {i \in DOMAIN trace :
        \/ trace[i].k \in {"mktemp", "conf"}
        \/ trace[i].k = "log" /\ trace[i].res = "generating"
        \/ trace[i].k = "exec" /\ Verb(trace[i].cmd) = <<"trust">>}

\* the call ran initDB: it took a step of it, or found the directory missing
RanInitDB == InitSteps # {} \/ err.msg = ErrNotReady

\* where in the call initDB succeeded: it wrote postgresql.conf
InitDone == {i \in DOMAIN trace : trace[i].k = "conf" /\ trace[i].res = "ok"}

\* what C20 says of initDB and of the start command, whatever the call returns
StartOrder ==
    /\ RanInitDB <=> pre.state < stateInitialized
    /\ \A i \in ExecsOf(trace, "start") :
           \/ pre.state \in {stateInitialized, stateServerStarted}
           \/ \E j \in InitDone : j < i
    /\ (RanInitDB /\ InitDone = {}) =>
           /\ ExecsOf(trace, "start") = {}
           /\ err # nil
           /\ bp.state # stateServerStarted
    /\ (bp.state = stateServerStarted /\ pre.state # stateServerStarted) =>
           /\ err = nil
           /\ \E i \in ExecsOf(trace, "start") : trace[i].res = "ok"
    /\ (\E i \in ExecsOf(trace, "start") : trace[i].res = "ok") =>
           bp.state = stateServerStarted

----------------------------------------------------------------------------
(* C21 -- C30 *)

\* the call being made is a Start that finds the state below Initialized and
\* whose initDB gets as far as the data directory: the working directory is
\* there, named by the caller or just made
ReachingDataDir ==
    /\ op'.name = "Start"
    /\ bp.state < stateInitialized
    /\ err'.msg \notin {ErrNotReady, "Failed to make tmpdir"}

\* the data directory <tmpDir>/<pgVer> of that call was there before it
DataDirWasThere ==
    StatDbDir(World(bp', dirs', dbdirs, tempSeq))

\* the initdb commands in what the call did
InitdbRuns == {i \in DOMAIN trace' : trace'[i].k = "exec"
                                      /\ Verb(trace'[i].cmd) = <<"trust">>}

Launches == {i \in DOMAIN trace : trace[i].k = "exec"}

\* C22: every subprocess a call runs -- pg_ctl -V, initdb, pg_ctl start, psql,
\* pg_dump, pg_ctl stop -- comes after a call of bp.logf that carries its
\* command line.
C22_LoggedBeforeRun ==
    \A i \in Launches :
        \E j \in 1..(i - 1) :
            /\ trace[j].k = "log"
            /\ trace[j].res = "cmdline"
            /\ trace[j].cmd = trace[i].cmd

\* the subprocesses of a call that failed: they exited non-zero (seen by
\* CombinedOutput or by Wait) or could not be launched
Failures ==
    {i \in DOMAIN trace : trace[i].k \in {"exec", "wait"}
                            /\ trace[i].res \in {"exit", "launch"}}

\* the name of the operation each error message of a failed command begins with
OpMessage ==
    [n \in {"Start", "CreateDB", "DumpDB", "Fini", "MustFini"} |->
        CASE n = "Start"    -> {"Start failed", "initDB failed"}
          [] n = "CreateDB" -> {"CreateDB failed"}
          [] n = "DumpDB"   -> {"DumpDB failed"}
          [] OTHER          -> {"Fini failed"}]

\* C23: when a subprocess of Start (initDB included), CreateDB, DumpDB or Fini
\* fails, by exiting non-zero or by not launching, the error returned names
\* the operation, carries the command line of that subprocess, and wraps the
\* cause; so the two kinds of failure give different errors.
C23_FailureHasContext ==
    (op.name \in DOMAIN OpMessage /\ Failures # {}) =>
        \A i \in Failures :
            /\ err.msg \in OpMessage[op.name]
            /\ err.args = trace[i].cmd.Args
            /\ err.cause # ""

\* C28: SetOption(OptPostgresPath(dir)) that returns an error on an instance
\* whose state is below Initialized -- no engine in dir, or pg_ctl -V failed --
\* leaves pgCmds and pgVer as they were.
C28_FailedPathLeavesEngine ==
    [][(live /\ SettingOption({"OptPostgresPath"})
             /\ bp.state < stateInitialized /\ err' # nil) =>
           /\ bp'.pgCmds = bp.pgCmds
           /\ bp'.pgVer = bp.pgVer]_vars

\* C29: a call that finds the state ServerStarted leaves it ServerStarted,
\* unless it is a Fini whose stop command succeeds, which leaves it Defunct; a
\* Start that finds it runs no step of initDB, runs the start command, and
\* leaves it ServerStarted whether that command succeeds or fails.
C29_StartedIsStable ==
    (live /\ pre.state = stateServerStarted) =>
        /\ bp.state # stateServerStarted =>
               /\ IsFini
               /\ err = nil
               /\ \E i \in ExecsOf(trace, "stop") : trace[i].res = "ok"
               /\ bp.state = stateDefunct
        /\ (IsFini /\ \E i \in ExecsOf(trace, "stop") : trace[i].res = "ok") =>
               bp.state = stateDefunct
        /\ op.name = "Start" =>
               /\ ~RanInitDB
               /\ Cardinality(ExecsOf(trace, "start")) = 1
               /\ bp.state = stateServerStarted
        /\ op.name \in {"SetOption", "CreateDB", "DumpDB"} =>
               bp.state = stateServerStarted

\* C29, its case: a Start on a server that is started, its start command
\* failing, has left the state ServerStarted
C29_Witness ==
    /\ op.name = "Start"
    /\ pre.state = stateServerStarted
    /\ ~hist.finied
    /\ err.msg = "Start failed"
    /\ bp.state = stateServerStarted

\* C30: a DumpDB that launched pg_dump has waited for it before it returns,
\* on every path, the one on which the copy to the writer fails included.
C30_DumpReaped ==
    op.name = "DumpDB" =>
        \A i \in DOMAIN trace :
            (trace[i].k = "exec" /\ trace[i].res = "started") =>
                \E j \in DOMAIN trace :
                    j > i /\ trace[j].k = "wait" /\ trace[j].cmd = trace[i].cmd

\* the output of pg_ctl -V in the directory the instance's commands are in
VersionOutput == host.version[bp.pgCmds["pg_ctl"][1]]

\* C25: a New that returns an instance, and a SetOption(OptPostgresPath(..))
\* that returns nil, leave a pgVer that is not empty, and is what follows the
\* last space of the trimmed output of pg_ctl -V; output with no version in
\* it makes them fail.
C25_VersionDetected ==
    (/\ live
     /\ err = nil
     /\ \/ op.name = "New"
        \/ op.name = "SetOption" /\ op.opts[1].k = "OptPostgresPath") =>
        /\ bp.pgVer # <<>>
        /\ bp.pgVer = LastField(TrimSpace(VersionOutput))

\* the lifecycle states
States == stateNotPresent..stateDefunct

SoloResult ==
    CASE op'.name = "Start" -> StartOf(Alone(op'.arg.who), op'.arg.x)
      [] op'.name = "CreateDB" -> CreateDBOf(Alone(op'.arg.who), "test_db", "", op'.arg.x)
      [] op'.name = "Fini" -> FiniOf(Alone(op'.arg.who), op'.arg.x, TRUE)

\* instance i after the call
InstAfter(i) == IF i = 1 THEN bp' ELSE peer'

\* C26: with two instances, each call on one of them returns what it returns
\* when that instance is alone -- the same fields after it, the same error,
\* the same subprocesses in the same order, the same string -- and leaves the
\* other instance's fields, working directory and data directory as they
\* were: no command it runs names the other's directory, and it removes
\* nothing of the other's.
C26_InstancesIndependent ==
    [][op'.name \in {"Start", "CreateDB", "Fini"} =>
           /\ InstAfter(op'.arg.who) = SoloResult.w.bp
           /\ err' = SoloResult.err
           /\ trace' = SoloResult.tr
           /\ ret' = SoloResult.ret
           /\ InstAfter(3 - op'.arg.who) = Inst(3 - op'.arg.who)
           /\ \A d \in Foreign(op'.arg.who) : d \in dirs <=> d \in dirs'
           /\ \A p \in dbdirs \cup dbdirs' :
                  (Len(p) >= 1 /\ p[1] \in Foreign(op'.arg.who)) =>
                      (p \in dbdirs /\ p \in dbdirs')
           /\ \A k \in DOMAIN trace' :
                  (trace'[k].k = "exec" /\ DataDirOf(trace'[k].cmd) # <<>>) =>
                      DataDirOf(trace'[k].cmd)[1] \notin Foreign(op'.arg.who)
           /\ Removals(trace') \cap Foreign(op'.arg.who) = {}]_vars

\* C26, its case: both servers were started, each in a directory made for it,
\* and the first has been torn down; the second is as it was
C26_Witness ==
    /\ op.name = "Fini"
    /\ op.arg.who = 1
    /\ bp.state = stateDefunct
    /\ bp.madeTmpDir
    /\ bp.tmpDir \notin dirs
    /\ peer.state = stateServerStarted
    /\ peer.madeTmpDir
    /\ peer.tmpDir # bp.tmpDir
    /\ peer.tmpDir \in dirs
    /\ DbDir(peer) \in dbdirs

\* the value bp.tmpDir was last given
LastRecorded == hist.recorded[Len(hist.recorded)]

\* C27: two Starts interleaved on one instance can each make a working
\* directory (nothing keeps the second from passing the state check before
\* the first has initialized); whenever Fini then returns, the only directory
\* it has removed is the one last stored in bp.tmpDir: it is gone when Fini
\* cleaned up and the removal did not fail, and every other directory made is
\* still there.
C27_OnlyLastDirRemoved ==
    (op.name = "Fini" /\ hist.recorded # <<>>) =>
        /\ bp.tmpDir = LastRecorded
        /\ Removals(trace) \subseteq {LastRecorded}
        /\ Generated \ {LastRecorded} \subseteq dirs
        /\ (bp.state = stateDefunct /\ bp.madeTmpDir /\ ~RemovalFailed) =>
               LastRecorded \notin dirs

\* C27, its case: both Starts passed the state check, both made a directory
\* and both wrote the configuration; Fini has removed the directory recorded
\* last and the other one is left behind
C27_Witness ==
    /\ op.name = "Fini"
    /\ bp.state = stateDefunct
    /\ tempSeq = 2
    /\ Len(hist.recorded) = 2
    /\ Len(SelectEv(trace, "conf")) = 2
    /\ LastRecorded \in Generated
    /\ LastRecorded \notin dirs
    /\ \E d \in Generated : d # LastRecorded /\ d \in dirs

====
